---- MODULE Spec2Model ----
(***************************************************************************)
(* Model of the stratavote motion lifecycle: the ballot store and the vote *)
(* submission transaction (db.js, server.js), the administrator routes     *)
(* that write motions and tokens (server.js), and the completion sweeper   *)
(* with its notification outbox (services/notificationWorker.js).          *)
(***************************************************************************)
EXTENDS Integers, Sequences, FiniteSets, Bags, TLC

\* ------------------------------------------------------------------ bounds
MaxMotions == 1        \* motions ever created
MaxTokens == 1         \* voter tokens ever created
MaxRequests == 2       \* vote requests in flight at once (server instances)
MaxSweepers == 2       \* sweeps running at once (server instances)
MaxEligible == 10      \* eligible count and ballots of an evaluated tally
MaxPasses == 2         \* delivery passes running at once in one process
MaxAttempts == 6       \* failed attempts on a row the clock is moved on for
MaxVoters == 2         \* voter tokens of the motion a sweep decides on
MaxBeside == 2         \* motions that exist side by side in one sweep or pass

MotionIds == 1..MaxMotions
TokenIds == 1..MaxTokens
\* the clock: before, inside and after the window of a motion
Times == {0, 1, 2}

NULL == "NULL"

\* ------------------------------------------------------------ data model
validStatuses == {"Draft", "Open", "Closed", "Published"}
DefaultOptions == {"Yes", "No", "Abstain"}
\* outcome TEXT NULL CHECK(outcome IN (...))
Outcomes == {"Passed", "Failed", "Tie", "Cancelled"}
\* what a voter may post as choice: options and a label that is none
BinaryChoices == {"Yes", "No", "Maybe"}
\* voting windows an administrator enters
ShortWindow == {[open_at |-> 1, close_at |-> 1]}
EarlyWindow == {[open_at |-> 0, close_at |-> 1]}
\* recipient addresses an administrator enters, and the configured
\* property_manager_email
Emails == {"a@x.org", " A@X.org", "b@x.org"}
ManagerEmail == "pm@x.org"
\* processPendingResultsEmails({ limit = 25 })
DefaultLimit == 25

\* messages rendered by the vote route
MsgNotFound == "Motion not found."
MsgInvalidLink == "Invalid voting link."
MsgUsed == "This voting link has already been used."
MsgRevoked == "This voting link has been revoked."
MsgNotActive == "This voting link is not active."
MsgWrongMotion == "Invalid voting link for this motion."
MsgNotOpen == "Voting is not currently open for this motion."
MsgNotYetOpen == "Voting has not yet opened."
MsgClosed == "Voting has closed."
MsgInvalidChoice == "Invalid choice."
MsgSuccess == "Your vote has been recorded successfully. Thank you for participating."
MsgError == "An error occurred while recording your vote. Please contact support."
VALID == "valid"

VARIABLES
  motions,       \* motions table: id -> row, for the rows that exist
  nextMotionId,  \* AUTOINCREMENT of motions
  tokens,        \* voter_tokens table: id -> row
  nextTokenId,   \* AUTOINCREMENT of voter_tokens
  ballots,       \* ballots table, in insertion order
  now,           \* the clock
  inflight,      \* bag of vote requests between their checks and submitVote
  lastVote,      \* the response of this step, when it is one of the vote route
  notifications, \* outbox table, in insertion order
  sweeps,        \* bag of running sweepAndEnqueueCompletedMotions calls
  sweepLog,      \* what this step logged, when it is a sweeper's close step
  passes,        \* bag of running processPendingResultsEmails calls
  config,        \* RESULTS_EMAILS_ENABLED and the property manager setting
  closedOnce,    \* history: the motions that have been Closed or Published
  sweepClean,    \* history: no statement of the running sweep has failed so far
  lastMail,      \* the call of sendMailFn made in this step, when it makes one
  mailCount,     \* history: the calls of sendMailFn made so far
  calc,          \* a motion rule with a tally, and what the evaluators return
  lastSettle,    \* the call of sendMailFn that settled in this step, when one did
  delivered      \* history: bag of the motions whose sendMailFn call resolved

storeVars == <<motions, nextMotionId, tokens, nextTokenId, ballots>>
vars == <<motions, nextMotionId, tokens, nextTokenId, ballots, now, inflight,
          lastVote, notifications, sweeps, sweepLog, passes, config, closedOnce,
          sweepClean, lastMail, mailCount, calc, lastSettle, delivered>>
\* the history variables and the evaluator's scratch record
history == <<closedOnce, sweepClean, mailCount, calc, delivered>>

NoVote == [motionId |-> 0, tokenId |-> 0, message |-> NULL, checkedAt |-> 0]
NoLog == [motionId |-> 0, result |-> NULL, reason |-> NULL]
NoMail == [motionId |-> 0, to |-> {}, outcome |-> NULL]
NoCalc == [rule |-> NULL]
NoSettle == [motionId |-> 0, sent |-> FALSE]

\* ------------------------------------------------------------- helpers
BallotsOfToken(bs, t) == {i \in 1..Len(bs) : bs[i].voter_token_id = t}
BallotsOfMotion(bs, m) == {i \in 1..Len(bs) : bs[i].motion_id = m}
existsForToken(t) == BallotsOfToken(ballots, t) # {}

\* tokenQueries.getByToken: the row, or NoRow when none matches
NoRow == [motion_id |-> 0, status |-> NULL]
getByToken(t) == IF t \in DOMAIN tokens THEN tokens[t] ELSE NoRow

\* validateVoteEligibility without the comparison of the token's motion with
\* the motion of the request
validateVoteEligibility_AnyMotion(motion, mid, tok, t) ==
  IF tok = NoRow THEN MsgInvalidLink
  ELSE IF tok.status = "Used" THEN MsgUsed
  ELSE IF tok.status = "Revoked" THEN MsgRevoked
  ELSE IF tok.status # "Active" THEN MsgNotActive
  ELSE IF motion.status # "Open" THEN MsgNotOpen
  ELSE IF t < motion.open_at THEN MsgNotYetOpen
  ELSE IF t > motion.close_at THEN MsgClosed
  ELSE VALID

\* validateVoteEligibility without the comparison of now with the window
validateVoteEligibility_NoWindow(motion, mid, tok, t) ==
  IF tok = NoRow THEN MsgInvalidLink
  ELSE IF tok.status = "Used" THEN MsgUsed
  ELSE IF tok.status = "Revoked" THEN MsgRevoked
  ELSE IF tok.status # "Active" THEN MsgNotActive
  ELSE IF tok.motion_id # mid THEN MsgWrongMotion
  ELSE IF motion.status # "Open" THEN MsgNotOpen
  ELSE VALID

\* server.js validateVoteEligibility(motion, token)
validateVoteEligibility(motion, mid, tok, t) ==
  IF tok = NoRow THEN MsgInvalidLink
  ELSE IF tok.status = "Used" THEN MsgUsed
  ELSE IF tok.status = "Revoked" THEN MsgRevoked
  ELSE IF tok.status # "Active" THEN MsgNotActive
  ELSE IF tok.motion_id # mid THEN MsgWrongMotion
  ELSE IF motion.status # "Open" THEN MsgNotOpen
  ELSE IF t < motion.open_at THEN MsgNotYetOpen
  ELSE IF t > motion.close_at THEN MsgClosed
  ELSE VALID

\* the checks of POST /vote/:motionId before the transaction
VoteChecks(m, t, c) ==
  IF m \notin DOMAIN motions THEN MsgNotFound
  ELSE LET v == validateVoteEligibility(motions[m], m, getByToken(t), now)
       IN IF v # VALID THEN v
          ELSE IF c \notin motions[m].options THEN MsgInvalidChoice
          ELSE VALID

\* submitVote without the Active check and without the UNIQUE constraint
submitVote_Unguarded(m, t, c) ==
  IF t \notin DOMAIN tokens \/ m \notin DOMAIN motions
    THEN <<FALSE, ballots, tokens>>
  ELSE <<TRUE,
         Append(ballots, [motion_id |-> m, voter_token_id |-> t, choice |-> c]),
         [tokens EXCEPT ![t].status = "Used"]>>

\* db.js submitVote: what the transaction leaves, <<ok, ballots, tokens>>.
\* A throw inside db.transaction rolls every write back.
submitVote(m, t, c) ==
  IF t \notin DOMAIN tokens \/ tokens[t].status # "Active"
    THEN <<FALSE, ballots, tokens>>                 \* 'Token is not active'
  ELSE IF BallotsOfToken(ballots, t) # {} \/ m \notin DOMAIN motions
    THEN <<FALSE, ballots, tokens>>                 \* UNIQUE / FOREIGN KEY
  ELSE <<TRUE,
         Append(ballots, [motion_id |-> m, voter_token_id |-> t, choice |-> c]),
         [tokens EXCEPT ![t].status = "Used"]>>

\* ------------------------------------------------------- motion statistics
\* db.js getMotionStats, against the tables given
getMotionStats(toks, bs, m) ==
  LET eligible == Cardinality({t \in DOMAIN toks :
                     toks[t].motion_id = m /\ toks[t].status # "Revoked"})
      voted == Cardinality(BallotsOfMotion(bs, m))
  IN [eligible |-> eligible, voted |-> voted, remaining |-> eligible - voted,
      results |-> [c \in DefaultOptions |->
                     Cardinality({i \in BallotsOfMotion(bs, m) : bs[i].choice = c})]]

\* notificationWorker.js getCount
getCount(stats, label) == IF label \in DOMAIN stats.results THEN stats.results[label] ELSE 0

\* the two-thirds threshold rounded down
CeilTwoThirds_Floor(eligible) == (2 * eligible) \div 3

\* Math.ceil((eligible * 2) / 3)
CeilTwoThirds(eligible) == (2 * eligible + 2) \div 3

\* a projection whose Simple threshold is half of the eligible count
evaluateEarlyCompletion_Half(motion, stats) ==
  LET yes == getCount(stats, "Yes")
      no == getCount(stats, "No")
      Incomplete == [complete |-> FALSE, outcome |-> NULL, reason |-> NULL]
      Passed == [complete |-> TRUE, outcome |-> "Passed", reason |-> "early_threshold_passed"]
      Failed == [complete |-> TRUE, outcome |-> "Failed", reason |-> "early_threshold_failed"]
  IN IF stats.eligible <= 0 THEN Incomplete
     ELSE IF stats.voted <= 0 THEN Incomplete
     ELSE IF motion.required_majority = "TwoThirds"
       THEN IF yes >= CeilTwoThirds(stats.eligible) THEN Passed
            ELSE IF yes + stats.remaining < CeilTwoThirds(stats.eligible) THEN Failed
            ELSE Incomplete
     ELSE IF yes >= (stats.eligible + 1) \div 2 THEN Passed
     ELSE IF no >= (stats.eligible + 1) \div 2 THEN Failed
     ELSE Incomplete

\* notificationWorker.js evaluateEarlyCompletion
evaluateEarlyCompletion(motion, stats) ==
  LET yes == getCount(stats, "Yes")
      no == getCount(stats, "No")
      Incomplete == [complete |-> FALSE, outcome |-> NULL, reason |-> NULL]
      Passed == [complete |-> TRUE, outcome |-> "Passed", reason |-> "early_threshold_passed"]
      Failed == [complete |-> TRUE, outcome |-> "Failed", reason |-> "early_threshold_failed"]
  IN IF stats.eligible <= 0 THEN Incomplete
     ELSE IF stats.voted <= 0 THEN Incomplete
     ELSE IF motion.required_majority = "TwoThirds"
       THEN IF yes >= CeilTwoThirds(stats.eligible) THEN Passed
            ELSE IF yes + stats.remaining < CeilTwoThirds(stats.eligible) THEN Failed
            ELSE Incomplete
     ELSE IF yes >= (stats.eligible \div 2) + 1 THEN Passed
     ELSE IF no >= (stats.eligible \div 2) + 1 THEN Failed
     ELSE Incomplete

\* counts.Yes || counts.YES || 0, counts being the results keyed by choice
CountOr(results, label, upper) ==
  IF label \in DOMAIN results /\ results[label] # 0 THEN results[label]
  ELSE IF upper \in DOMAIN results /\ results[upper] # 0 THEN results[upper]
  ELSE 0

\* a final evaluation that lets a bare majority of Yes pass under either rule
computeOutcomeFromResults_Half(motion, stats) ==
  LET yes == CountOr(stats.results, "Yes", "YES")
      no == CountOr(stats.results, "No", "NO")
  IN IF motion.outcome # NULL THEN motion.outcome
     ELSE IF yes = no THEN "Tie"
     ELSE IF 2 * yes >= yes + no THEN "Passed"
     ELSE "Failed"

\* a final evaluation that does not look at the outcome the administrator set
computeOutcomeFromResults_Computed(motion, stats) ==
  LET yes == CountOr(stats.results, "Yes", "YES")
      no == CountOr(stats.results, "No", "NO")
  IN IF yes = no THEN "Tie"
     ELSE IF yes + no = 0 THEN "Failed"
     ELSE IF motion.required_majority = "TwoThirds"
       THEN (IF 3 * yes >= 2 * (yes + no) THEN "Passed" ELSE "Failed")
     ELSE IF 2 * yes > yes + no THEN "Passed"
     ELSE "Failed"

\* resultsEmailService.js computeOutcomeFromResults. ratio = yes / total is
\* compared with 2 / 3 and 0.5 in floating point; for counts of this size the
\* quotients are exact enough that the comparison is that of the fractions
computeOutcomeFromResults(motion, stats) ==
  LET yes == CountOr(stats.results, "Yes", "YES")
      no == CountOr(stats.results, "No", "NO")
      total == yes + no
  IN IF motion.outcome # NULL THEN motion.outcome
     ELSE IF yes = no THEN "Tie"
     ELSE IF total = 0 THEN "Failed"
     ELSE IF motion.required_majority = "TwoThirds"
       THEN (IF 3 * yes >= 2 * total THEN "Passed" ELSE "Failed")
     ELSE IF 2 * yes > total THEN "Passed"
     ELSE "Failed"

\* a schedule that reaches the hour one attempt early
computeBackoffMinutes_Early(attempts) ==
  IF attempts <= 1 THEN 1
  ELSE IF attempts = 2 THEN 5
  ELSE IF attempts = 3 THEN 15
  ELSE 60

\* notificationWorker.js computeBackoffMinutes
computeBackoffMinutes(attempts) ==
  IF attempts <= 0 THEN 1
  ELSE IF attempts = 1 THEN 1
  ELSE IF attempts = 2 THEN 5
  ELSE IF attempts = 3 THEN 15
  ELSE IF attempts = 4 THEN 30
  ELSE 60

\* ------------------------------------------------------------- the outbox
RowsOfMotion(ns, m) == {i \in 1..Len(ns) : ns[i].motion_id = m}
HasRow(ns, m) == RowsOfMotion(ns, m) # {}

\* an ensure that inserts without looking for the row
ensureResultsEmailNotification_Insert(ns, m, t) ==
  Append(ns, [motion_id |-> m, status |-> "Pending", attempts |-> 0,
              next_attempt_at |-> t, last_error |-> NULL])

\* an ensure that puts an existing row back to its first state
ensureResultsEmailNotification_Reset(ns, m, t) ==
  IF HasRow(ns, m)
    THEN [i \in 1..Len(ns) |->
            IF ns[i].motion_id = m
              THEN [ns[i] EXCEPT !.status = "Pending", !.attempts = 0,
                                 !.next_attempt_at = t]
              ELSE ns[i]]
  ELSE Append(ns, [motion_id |-> m, status |-> "Pending", attempts |-> 0,
                   next_attempt_at |-> t, last_error |-> NULL])

\* ensureResultsEmailNotification(motionId): create-if-absent keyed by motion
ensureResultsEmailNotification(ns, m, t) ==
  IF HasRow(ns, m) THEN ns
  ELSE Append(ns, [motion_id |-> m, status |-> "Pending", attempts |-> 0,
                   next_attempt_at |-> t, last_error |-> NULL])

\* getPendingNotifications(nowIso, limit): ids of the due rows, oldest first
RECURSIVE DueFrom(_, _, _, _)
DueFrom(ns, t, i, limit) ==
  IF i > Len(ns) \/ limit <= 0 THEN <<>>
  ELSE IF ns[i].status = "Pending" /\ ns[i].next_attempt_at <= t
    THEN <<[id |-> i, motion_id |-> ns[i].motion_id, attempts |-> ns[i].attempts]>>
         \o DueFrom(ns, t, i + 1, limit - 1)
  ELSE DueFrom(ns, t, i + 1, limit)
getPendingNotifications(ns, t, limit) == DueFrom(ns, t, 1, limit)

markNotificationSent(ns, id) == [ns EXCEPT ![id].status = "Sent"]

\* a failure that is counted and rescheduled while the reason is not recorded
markNotificationFailed_NoReason(ns, id, attempts, nextAttemptAt, reason) ==
  [ns EXCEPT ![id].attempts = attempts, ![id].next_attempt_at = nextAttemptAt]

markNotificationFailed(ns, id, attempts, nextAttemptAt, reason) ==
  [ns EXCEPT ![id].attempts = attempts, ![id].next_attempt_at = nextAttemptAt,
             ![id].last_error = reason]

\* ------------------------------------------------------------ the sweeper
\* what a statement inside the sweeper's transaction can do
Faults == {"none", "update", "ensure", "crash"}

\* a close that also resets the outcome of the motion
closeMotionIfEligible_Outcome(motion, sweepNow, fault) ==
  LET closeByTime == sweepNow >= motion.close_at
      updated == IF motion.id \in DOMAIN motions
                   THEN [motions EXCEPT ![motion.id].status = "Closed",
                                        ![motion.id].outcome = NULL]
                   ELSE motions
  IN IF motion.status # "Open" \/ ~closeByTime \/ fault # "none"
       THEN [changed |-> FALSE, threw |-> fault = "crash", reason |-> NULL,
             motions |-> motions, notifications |-> notifications]
     ELSE [changed |-> TRUE, threw |-> FALSE, reason |-> "end_time_reached",
           motions |-> updated,
           notifications |-> ensureResultsEmailNotification(notifications, motion.id, now)]

\* a close that queues the notification and leaves the status as it is
closeMotionIfEligible_NoUpdate(motion, sweepNow, fault) ==
  LET stats == getMotionStats(tokens, ballots, motion.id)
      closeByTime == sweepNow >= motion.close_at
      closeByAllVoted == stats.remaining <= 0 /\ stats.eligible > 0
      early == evaluateEarlyCompletion(motion, stats)
  IN IF motion.status # "Open" \/ fault # "none"
          \/ (~closeByTime /\ ~closeByAllVoted /\ ~early.complete)
       THEN [changed |-> FALSE, threw |-> fault = "crash", reason |-> NULL,
             motions |-> motions, notifications |-> notifications]
     ELSE [changed |-> TRUE, threw |-> FALSE, reason |-> "end_time_reached",
           motions |-> motions,
           notifications |-> ensureResultsEmailNotification(notifications, motion.id, now)]

\* a close on full turnout that does not ask for an eligible voter
closeMotionIfEligible_NoVoters(motion, sweepNow, fault) ==
  LET stats == getMotionStats(tokens, ballots, motion.id)
      closeByTime == sweepNow >= motion.close_at
      closeByAllVoted == stats.remaining <= 0
      early == evaluateEarlyCompletion(motion, stats)
      updated == IF motion.id \in DOMAIN motions
                   THEN [motions EXCEPT ![motion.id].status = "Closed"]
                   ELSE motions
      reason == IF early.complete THEN early.reason
                ELSE IF closeByAllVoted THEN "all_votes_cast"
                ELSE "end_time_reached"
  IN IF motion.status # "Open" \/ fault # "none"
          \/ (~closeByTime /\ ~closeByAllVoted /\ ~early.complete)
       THEN [changed |-> FALSE, threw |-> fault = "crash", reason |-> NULL,
             motions |-> motions, notifications |-> notifications]
     ELSE [changed |-> TRUE, threw |-> FALSE, reason |-> reason,
           motions |-> updated,
           notifications |-> ensureResultsEmailNotification(notifications, motion.id, now)]

\* a close that names full turnout before the locked outcome
closeMotionIfEligible_TurnoutFirst(motion, sweepNow, fault) ==
  LET stats == getMotionStats(tokens, ballots, motion.id)
      closeByTime == sweepNow >= motion.close_at
      closeByAllVoted == stats.remaining <= 0 /\ stats.eligible > 0
      early == evaluateEarlyCompletion(motion, stats)
      updated == IF motion.id \in DOMAIN motions
                   THEN [motions EXCEPT ![motion.id].status = "Closed"]
                   ELSE motions
      reason == IF closeByAllVoted THEN "all_votes_cast"
                ELSE IF early.complete THEN early.reason
                ELSE "end_time_reached"
  IN IF motion.status # "Open" \/ fault # "none"
          \/ (~closeByTime /\ ~closeByAllVoted /\ ~early.complete)
       THEN [changed |-> FALSE, threw |-> fault = "crash", reason |-> NULL,
             motions |-> motions, notifications |-> notifications]
     ELSE [changed |-> TRUE, threw |-> FALSE, reason |-> reason,
           motions |-> updated,
           notifications |-> ensureResultsEmailNotification(notifications, motion.id, now)]

\* notificationWorker.js closeMotionIfEligible(motion, now), run against the
\* store; motion is the row the sweep selected. fault names the statement that
\* throws, if one does. The result carries the tables as the statements left
\* them, rolled back or not.
closeMotionIfEligible(motion, sweepNow, fault) ==
  LET stats == getMotionStats(tokens, ballots, motion.id)
      closeByTime == sweepNow >= motion.close_at
      closeByAllVoted == stats.remaining <= 0 /\ stats.eligible > 0
      early == evaluateEarlyCompletion(motion, stats)
      closeByEarlyOutcome == early.complete
      updated == IF motion.id \in DOMAIN motions
                   THEN [motions EXCEPT ![motion.id].status = "Closed"]
                   ELSE motions
      reason == IF closeByEarlyOutcome THEN early.reason
                ELSE IF closeByAllVoted THEN "all_votes_cast"
                ELSE "end_time_reached"
  IN IF motion.status # "Open"
       THEN [changed |-> FALSE, threw |-> FALSE, reason |-> NULL,
             motions |-> motions, notifications |-> notifications]
     ELSE IF fault = "stats"
       THEN [changed |-> FALSE, threw |-> TRUE, reason |-> NULL,
             motions |-> motions, notifications |-> notifications]
     ELSE IF ~closeByTime /\ ~closeByAllVoted /\ ~closeByEarlyOutcome
       THEN [changed |-> FALSE, threw |-> fault = "crash", reason |-> NULL,
             motions |-> motions, notifications |-> notifications]
     ELSE IF fault = "update"
       THEN [changed |-> FALSE, threw |-> TRUE, reason |-> NULL,
             motions |-> motions, notifications |-> notifications]
     ELSE IF fault \in {"ensure", "crash"}
       THEN [changed |-> FALSE, threw |-> TRUE, reason |-> NULL,
             motions |-> updated, notifications |-> notifications]
     ELSE [changed |-> TRUE, threw |-> FALSE, reason |-> reason,
           motions |-> updated,
           notifications |-> ensureResultsEmailNotification(notifications, motion.id, now)]

\* a wrapper that keeps the writes made before the throw
transaction_NoRollback(r) == <<r.motions, r.notifications>>

\* db.transaction(() => closeMotionIfEligible(motion, now))(): the tables after
\* it; a throw or a crash inside rolls the writes back
transaction(r) ==
  IF r.threw THEN <<motions, notifications>> ELSE <<r.motions, r.notifications>>

\* SELECT * FROM motions WHERE status = ..., the rows in id order
RECURSIVE SelectMotions(_, _)
SelectMotions(statuses, m) ==
  IF m >= nextMotionId THEN <<>>
  ELSE (IF m \in DOMAIN motions /\ motions[m].status \in statuses
          THEN <<[id |-> m, status |-> motions[m].status,
                  close_at |-> motions[m].close_at,
                  required_majority |-> motions[m].required_majority]>>
          ELSE <<>>) \o SelectMotions(statuses, m + 1)

\* ------------------------------------------------------------------ Init
InitWith(configs) ==
  /\ motions = <<>>
  /\ nextMotionId = 1
  /\ tokens = <<>>
  /\ nextTokenId = 1
  /\ ballots = <<>>
  /\ now = 0
  /\ inflight = EmptyBag
  /\ lastVote = NoVote
  /\ notifications = <<>>
  /\ sweeps = EmptyBag
  /\ sweepLog = NoLog
  /\ passes = EmptyBag
  /\ config \in configs
  /\ closedOnce = {}
  /\ sweepClean = TRUE
  /\ lastMail = NoMail
  /\ mailCount = 0
  /\ calc = NoCalc
  /\ lastSettle = NoSettle
  /\ delivered = EmptyBag

Configured == {[enabled |-> TRUE, propertyManagerEmail |-> TRUE]}

Init == InitWith(Configured)

\* this step renders no vote response, logs no close and sends no mail
Quiet ==
  /\ lastVote' = NoVote
  /\ sweepLog' = NoLog
  /\ lastMail' = NoMail
  /\ lastSettle' = NoSettle

\* --------------------------------------------------------- administrator
\* POST /admin/motions: a new motion is a Draft
AdminCreateMotion(maxMotions, windows, majorities) ==
  /\ nextMotionId <= maxMotions
  /\ \E w \in windows, maj \in majorities :
       motions' = (nextMotionId :> [status |-> "Draft", open_at |-> w.open_at,
                                    close_at |-> w.close_at,
                                    required_majority |-> maj,
                                    options |-> DefaultOptions,
                                    outcome |-> NULL]) @@ motions
  /\ nextMotionId' = nextMotionId + 1
  /\ Quiet
  /\ UNCHANGED <<tokens, nextTokenId, ballots, now, inflight,
                 notifications, sweeps, passes, config>>

\* POST /admin/motions/:id/status
AdminUpdateStatus ==
  /\ \E m \in DOMAIN motions, s \in validStatuses :
       motions' = [motions EXCEPT ![m].status = s]
  /\ Quiet
  /\ UNCHANGED <<nextMotionId, tokens, nextTokenId, ballots, now, inflight,
                 notifications, sweeps, passes, config>>

\* POST /admin/motions/:id/outcome
AdminUpdateOutcome(outcomes) ==
  /\ \E m \in DOMAIN motions, o \in outcomes :
       motions' = [motions EXCEPT ![m].outcome = o]
  /\ Quiet
  /\ UNCHANGED <<nextMotionId, tokens, nextTokenId, ballots, now, inflight,
                 notifications, sweeps, passes, config>>

\* POST /admin/motions/:id/tokens, one recipient
AdminCreateToken(maxTokens, emails) ==
  /\ nextTokenId <= maxTokens
  /\ \E m \in DOMAIN motions, e \in emails :
       tokens' = (nextTokenId :> [motion_id |-> m, status |-> "Active",
                                  recipient_email |-> e]) @@ tokens
  /\ nextTokenId' = nextTokenId + 1
  /\ Quiet
  /\ UNCHANGED <<motions, nextMotionId, ballots, now, inflight,
                 notifications, sweeps, passes, config>>

\* a delete whose foreign keys cascade to the ballots
AdminDeleteMotion_Cascade ==
  /\ \E m \in DOMAIN motions :
       /\ motions[m].status \in {"Draft", "Open"}
       /\ tokens' = [t \in {u \in DOMAIN tokens : tokens[u].motion_id # m} |-> tokens[t]]
       /\ motions' = [k \in DOMAIN motions \ {m} |-> motions[k]]
       /\ ballots' = SelectSeq(ballots, LAMBDA b : b.motion_id # m)
  /\ Quiet
  /\ UNCHANGED <<nextMotionId, nextTokenId, now, inflight,
                 notifications, sweeps, passes, config>>

\* POST /admin/motions/:id/delete: Draft and Open motions only; the
\* transaction deletes the motion's tokens, then the motion, and fails on the
\* foreign keys of the ballots table when a ballot refers to either
AdminDeleteMotion ==
  /\ \E m \in DOMAIN motions :
       /\ motions[m].status \in {"Draft", "Open"}
       /\ BallotsOfMotion(ballots, m) = {}
       /\ \A t \in DOMAIN tokens : tokens[t].motion_id = m => ~existsForToken(t)
       /\ tokens' = [t \in {u \in DOMAIN tokens : tokens[u].motion_id # m} |-> tokens[t]]
       /\ motions' = [k \in DOMAIN motions \ {m} |-> motions[k]]
  /\ Quiet
  /\ UNCHANGED <<nextMotionId, nextTokenId, ballots, now, inflight,
                 notifications, sweeps, passes, config>>

\* POST /admin/tokens/:tokenId/revoke
AdminRevokeToken ==
  /\ \E t \in DOMAIN tokens :
       tokens' = [tokens EXCEPT ![t].status = "Revoked"]
  /\ Quiet
  /\ UNCHANGED <<motions, nextMotionId, nextTokenId, ballots, now, inflight,
                 notifications, sweeps, passes, config>>

\* ------------------------------------------------------------ vote route
\* POST /vote/:motionId when a check fails: the message is rendered
VoteReject(choices) ==
  \E m \in 1..(nextMotionId - 1), t \in 1..(nextTokenId - 1), c \in choices :
    /\ VoteChecks(m, t, c) # VALID
    /\ lastVote' = [motionId |-> m, tokenId |-> t, message |-> VoteChecks(m, t, c),
                    checkedAt |-> now]
    /\ sweepLog' = NoLog
    /\ lastMail' = NoMail
    /\ lastSettle' = NoSettle
    /\ UNCHANGED <<storeVars, now, inflight, notifications, sweeps, passes, config>>

\* POST /vote/:motionId when the checks pass, up to the call of submitVote
VoteBegin(maxRequests, choices) ==
  \E m \in 1..(nextMotionId - 1), t \in 1..(nextTokenId - 1), c \in choices :
    /\ VoteChecks(m, t, c) = VALID
    /\ BagCardinality(inflight) < maxRequests
    /\ inflight' = inflight (+) SetToBag({[motionId |-> m, tokenId |-> t,
                                          choice |-> c, checkedAt |-> now]})
    /\ Quiet
    /\ UNCHANGED <<storeVars, now, notifications, sweeps, passes, config>>

\* the submitVote transaction and the response
VoteCommit ==
  \E r \in BagToSet(inflight) :
    LET tx == submitVote(r.motionId, r.tokenId, r.choice) IN
      /\ ballots' = tx[2]
      /\ tokens' = tx[3]
      /\ lastVote' = [motionId |-> r.motionId, tokenId |-> r.tokenId,
                      message |-> IF tx[1] THEN MsgSuccess ELSE MsgError,
                      checkedAt |-> r.checkedAt]
      /\ inflight' = inflight (-) SetToBag({r})
      /\ sweepLog' = NoLog
      /\ lastMail' = NoMail
      /\ lastSettle' = NoSettle
      /\ UNCHANGED <<motions, nextMotionId, nextTokenId, now,
                     notifications, sweeps, passes, config>>

Tick ==
  /\ now + 1 \in Times
  /\ now' = now + 1
  /\ Quiet
  /\ UNCHANGED <<storeVars, inflight, notifications, sweeps, passes, config>>

\* ----------------------------------------------------------- sweeper steps
\* sweepAndEnqueueCompletedMotions: now and the SELECT of the Open motions
SweepStart(maxSweepers) ==
  /\ BagCardinality(sweeps) < maxSweepers
  /\ sweeps' = sweeps (+) SetToBag({[pc |-> "closing", now |-> now,
                                     todo |-> SelectMotions({"Open"}, 1)]})
  /\ Quiet
  /\ UNCHANGED <<storeVars, now, inflight, notifications, passes, config>>

\* a first loop without the try: the first failure ends the pass
SweepCloseMotion_Abort(faults) ==
  \E sw \in BagToSet(sweeps), fault \in faults :
    /\ sw.pc = "closing"
    /\ sw.todo # <<>>
    /\ LET motion == Head(sw.todo)
           r == closeMotionIfEligible(motion, sw.now, fault)
           tx == transaction(r)
       IN /\ motions' = tx[1]
          /\ notifications' = tx[2]
          /\ sweepLog' = [motionId |-> motion.id,
                          result |-> IF fault = "crash" THEN "crashed"
                                     ELSE IF r.threw THEN "failed"
                                     ELSE IF r.changed THEN "closed" ELSE "left",
                          reason |-> r.reason]
          /\ sweeps' = IF fault = "crash" \/ r.threw
                         THEN sweeps (-) SetToBag({sw})
                         ELSE (sweeps (-) SetToBag({sw}))
                              (+) SetToBag({[sw EXCEPT !.todo = Tail(sw.todo)]})
    /\ lastVote' = NoVote
    /\ lastMail' = NoMail
    /\ lastSettle' = NoSettle
    /\ UNCHANGED <<nextMotionId, tokens, nextTokenId, ballots, now, inflight,
                   passes, config>>

\* one turn of the first loop: the transaction around closeMotionIfEligible
SweepCloseMotion(faults) ==
  \E sw \in BagToSet(sweeps), fault \in faults :
    /\ sw.pc = "closing"
    /\ sw.todo # <<>>
    /\ LET motion == Head(sw.todo)
           r == closeMotionIfEligible(motion, sw.now, fault)
           tx == transaction(r)
       IN /\ motions' = tx[1]
          /\ notifications' = tx[2]
          /\ sweepLog' = [motionId |-> motion.id,
                          result |-> IF fault = "crash" THEN "crashed"
                                     ELSE IF r.threw THEN "failed"
                                     ELSE IF r.changed THEN "closed" ELSE "left",
                          reason |-> r.reason]
          /\ sweeps' = IF fault = "crash"
                         THEN sweeps (-) SetToBag({sw})
                         ELSE (sweeps (-) SetToBag({sw}))
                              (+) SetToBag({[sw EXCEPT !.todo = Tail(sw.todo)]})
    /\ lastVote' = NoVote
    /\ lastMail' = NoMail
    /\ lastSettle' = NoSettle
    /\ UNCHANGED <<nextMotionId, tokens, nextTokenId, ballots, now, inflight,
                   passes, config>>

\* a backfill that selects the Closed motions only
SweepSelectClosed_ClosedOnly ==
  \E sw \in BagToSet(sweeps) :
    /\ sw.pc = "closing"
    /\ sw.todo = <<>>
    /\ LET closedMotions == SelectMotions({"Closed"}, 1) IN
         sweeps' = IF closedMotions = <<>>
                     THEN sweeps (-) SetToBag({sw})
                     ELSE (sweeps (-) SetToBag({sw}))
                          (+) SetToBag({[sw EXCEPT !.pc = "ensuring",
                                                   !.todo = closedMotions]})
    /\ Quiet
    /\ UNCHANGED <<storeVars, now, inflight, notifications, passes, config>>

\* the SELECT of the Closed and Published motions
SweepSelectClosed ==
  \E sw \in BagToSet(sweeps) :
    /\ sw.pc = "closing"
    /\ sw.todo = <<>>
    /\ LET closedMotions == SelectMotions({"Closed", "Published"}, 1) IN
         sweeps' = IF closedMotions = <<>>
                     THEN sweeps (-) SetToBag({sw})
                     ELSE (sweeps (-) SetToBag({sw}))
                          (+) SetToBag({[sw EXCEPT !.pc = "ensuring",
                                                   !.todo = closedMotions]})
    /\ Quiet
    /\ UNCHANGED <<storeVars, now, inflight, notifications, passes, config>>

\* one turn of the second loop: ensure the outbox row, or fail and log
SweepEnsure ==
  \E sw \in BagToSet(sweeps), ok \in BOOLEAN :
    /\ sw.pc = "ensuring"
    /\ sw.todo # <<>>
    /\ sweepLog' = IF ok THEN NoLog
                   ELSE [motionId |-> Head(sw.todo).id, result |-> "ensure failed",
                         reason |-> NULL]
    /\ notifications' = IF ok
         THEN ensureResultsEmailNotification(notifications, Head(sw.todo).id, now)
         ELSE notifications
    /\ sweeps' = IF Len(sw.todo) = 1
                   THEN sweeps (-) SetToBag({sw})
                   ELSE (sweeps (-) SetToBag({sw}))
                        (+) SetToBag({[sw EXCEPT !.todo = Tail(sw.todo)]})
    /\ lastVote' = NoVote
    /\ lastMail' = NoMail
    /\ lastSettle' = NoSettle
    /\ UNCHANGED <<storeVars, now, inflight, passes, config>>

\* ---------------------------------------------------------- delivery steps
\* a delivery that does not look at the feature flag
SkipReason_FlagIgnored(m) ==
  IF m \notin DOMAIN motions THEN "motion_not_found"
  ELSE IF ~config.propertyManagerEmail THEN "property_manager_email_missing"
  ELSE NULL

\* sendResultsEmailForMotion up to the call of sendMailFn: the reason it
\* skips for, or NULL when it goes on to send
SkipReason(m) ==
  IF ~config.enabled THEN "results_emails_disabled"
  ELSE IF m \notin DOMAIN motions THEN "motion_not_found"
  ELSE IF ~config.propertyManagerEmail THEN "property_manager_email_missing"
  ELSE NULL

\* resultsEmailService.js normalizeEmail: (email || '').trim().toLowerCase()
normalizeEmail(email) ==
  IF email = NULL THEN ""
  ELSE IF email = " A@X.org" THEN "a@x.org"
  ELSE email

\* uniqEmails: the distinct non-empty normalized addresses
uniqEmails(emails) == {normalizeEmail(e) : e \in emails} \ {""}

\* buildRecipientsForMotion and the recipients of sendResultsEmailForMotion
getPropertyManagerEmail == IF config.propertyManagerEmail THEN ManagerEmail ELSE NULL
Recipients(m) ==
  uniqEmails({tokens[t].recipient_email :
                t \in {u \in DOMAIN tokens : tokens[u].motion_id = m}}
             \cup {getPropertyManagerEmail})

\* the pass goes on to its next row, or ends
Advance(ps, p) ==
  IF Len(p.pending) = 1
    THEN ps (-) SetToBag({p})
    ELSE (ps (-) SetToBag({p}))
         (+) SetToBag({[p EXCEPT !.pc = "next", !.pending = Tail(p.pending)]})

\* processPendingResultsEmails: nowIso and getPendingNotifications
DeliverStart(maxPasses, limit) ==
  /\ BagCardinality(passes) < maxPasses
  /\ getPendingNotifications(notifications, now, limit) # <<>>
  /\ passes' = passes (+) SetToBag({[pc |-> "next",
                 pending |-> getPendingNotifications(notifications, now, limit)]})
  /\ Quiet
  /\ UNCHANGED <<storeVars, now, inflight, notifications, sweeps, config>>

\* one row: a skip is recorded at once, a send waits for the mail transport
DeliverAttempt ==
  \E p \in BagToSet(passes) :
    /\ p.pc = "next"
    /\ LET notif == Head(p.pending)
           reason == SkipReason(notif.motion_id)
       IN IF reason = NULL
            THEN /\ passes' = (passes (-) SetToBag({p}))
                              (+) SetToBag({[p EXCEPT !.pc = "sending"]})
                 /\ lastMail' = [motionId |-> notif.motion_id,
                                 to |-> Recipients(notif.motion_id),
                                 outcome |-> computeOutcomeFromResults(
                                   motions[notif.motion_id],
                                   getMotionStats(tokens, ballots, notif.motion_id))]
                 /\ UNCHANGED notifications
            ELSE /\ notifications' = markNotificationFailed(notifications, notif.id,
                        notif.attempts + 1,
                        now + computeBackoffMinutes(notif.attempts + 1), reason)
                 /\ passes' = Advance(passes, p)
                 /\ lastMail' = NoMail
    /\ lastVote' = NoVote
    /\ sweepLog' = NoLog
    /\ lastSettle' = NoSettle
    /\ UNCHANGED <<storeVars, now, inflight, sweeps, config>>

\* sendMailFn settles: the row is marked Sent, or failed with the error
DeliverSettle ==
  \E p \in BagToSet(passes), sent \in BOOLEAN :
    /\ p.pc = "sending"
    /\ LET notif == Head(p.pending) IN
         /\ notifications' = IF sent
              THEN markNotificationSent(notifications, notif.id)
              ELSE markNotificationFailed(notifications, notif.id, notif.attempts + 1,
                     now + computeBackoffMinutes(notif.attempts + 1), "send failed")
         /\ lastSettle' = [motionId |-> notif.motion_id, sent |-> sent]
    /\ passes' = Advance(passes, p)
    /\ lastVote' = NoVote
    /\ sweepLog' = NoLog
    /\ lastMail' = NoMail
    /\ UNCHANGED <<storeVars, now, inflight, sweeps, config>>

\* ------------------------------------------------------- the evaluators
\* the motion and the statistics the record under evaluation stands for
CalcMotion == [required_majority |-> calc.rule, outcome |-> calc.outcome]
CalcStats ==
  [eligible |-> calc.eligible,
   voted |-> calc.yes + calc.no + calc.abstain,
   remaining |-> calc.eligible - (calc.yes + calc.no + calc.abstain),
   results |-> [c \in DefaultOptions |->
                  IF c = "Yes" THEN calc.yes ELSE IF c = "No" THEN calc.no
                  ELSE calc.abstain]]

NoEarly == [complete |-> FALSE, outcome |-> NULL, reason |-> "not evaluated"]

\* the rules, administrator outcomes, eligible counts and tallies evaluated
CalcInputs ==
  {[rule |-> r, outcome |-> o, eligible |-> e, yes |-> y, no |-> n,
    abstain |-> a, early |-> NoEarly, fresh |-> FALSE, final |-> NULL] :
     r \in {"Simple", "TwoThirds"}, o \in Outcomes \cup {NULL},
     e \in 0..MaxEligible,
     y \in 0..MaxEligible, n \in 0..MaxEligible, a \in 0..MaxEligible}

InitEval ==
  /\ motions = <<>>
  /\ nextMotionId = 1
  /\ tokens = <<>>
  /\ nextTokenId = 1
  /\ ballots = <<>>
  /\ now = 0
  /\ inflight = EmptyBag
  /\ lastVote = NoVote
  /\ notifications = <<>>
  /\ sweeps = EmptyBag
  /\ sweepLog = NoLog
  /\ passes = EmptyBag
  /\ config \in Configured
  /\ closedOnce = {}
  /\ sweepClean = TRUE
  /\ lastMail = NoMail
  /\ mailCount = 0
  /\ lastSettle = NoSettle
  /\ delivered = EmptyBag
  /\ calc \in {c \in CalcInputs : c.yes + c.no + c.abstain <= MaxEligible}

\* what the evaluators leave alone
programVars == <<storeVars, now, inflight, lastVote, notifications, sweeps,
                 sweepLog, passes, config, lastMail, lastSettle>>

\* the sweeper's call of evaluateEarlyCompletion(motion, stats)
EvaluateEarly ==
  /\ calc.early = NoEarly
  /\ calc' = [calc EXCEPT !.early = evaluateEarlyCompletion(CalcMotion, CalcStats),
                          !.fresh = TRUE]
  /\ UNCHANGED <<programVars, closedOnce, sweepClean, mailCount, delivered>>

\* the delivery worker's call of computeOutcomeFromResults(motion, stats)
EvaluateFinal ==
  /\ calc.final = NULL
  /\ calc' = [calc EXCEPT !.final = computeOutcomeFromResults(CalcMotion, CalcStats)]
  /\ UNCHANGED <<programVars, closedOnce, sweepClean, mailCount, delivered>>

\* one of the remaining ballots is cast after the projection has locked
CastRemaining ==
  /\ calc.early.complete
  /\ CalcStats.remaining > 0
  /\ \E c \in DefaultOptions :
       calc' = [calc EXCEPT !.yes = IF c = "Yes" THEN @ + 1 ELSE @,
                            !.no = IF c = "No" THEN @ + 1 ELSE @,
                            !.abstain = IF c = "Abstain" THEN @ + 1 ELSE @,
                            !.fresh = FALSE,
                            !.final = NULL]
  /\ UNCHANGED <<programVars, closedOnce, sweepClean, mailCount, delivered>>

NextEval == EvaluateEarly \/ EvaluateFinal \/ CastRemaining

SpecEval == InitEval /\ [][NextEval]_vars

\* ------------------------------------------------------------ history
\* closedOnce follows the motions table; it is kept where it is read
TrackClosed ==
  /\ closedOnce' = closedOnce \cup {m \in DOMAIN motions' :
                                      motions'[m].status \in {"Closed", "Published"}}
  /\ UNCHANGED <<sweepClean, mailCount, calc, delivered>>

\* sweepClean follows the sweeper's log: a sweep starts clean and stops being
\* so at its first failed transaction, failed ensure or crash
TrackSweep ==
  /\ sweepClean' = IF sweeps = EmptyBag /\ sweeps' # EmptyBag THEN TRUE
                   ELSE IF sweepLog'.result \in {"failed", "crashed", "ensure failed"}
                     THEN FALSE
                   ELSE sweepClean
  /\ UNCHANGED <<closedOnce, mailCount, calc, delivered>>

\* ------------------------------------------------------ the vote path alone
Next ==
  \/ AdminCreateMotion(MaxMotions, ShortWindow, {"Simple"}) /\ UNCHANGED history
  \/ AdminUpdateStatus /\ UNCHANGED history
  \/ AdminDeleteMotion /\ UNCHANGED history
  \/ AdminCreateToken(MaxTokens, {NULL}) /\ UNCHANGED history
  \/ AdminRevokeToken /\ UNCHANGED history
  \/ VoteReject(BinaryChoices) /\ UNCHANGED history
  \/ VoteBegin(MaxRequests, BinaryChoices) /\ UNCHANGED history
  \/ VoteCommit /\ UNCHANGED history
  \/ Tick /\ UNCHANGED history

Spec == Init /\ [][Next]_vars

\* ------------------ the vote path with the history of the closed motions
NextHistory ==
  \/ AdminCreateMotion(MaxMotions, ShortWindow, {"Simple"}) /\ TrackClosed
  \/ AdminUpdateStatus /\ TrackClosed
  \/ AdminDeleteMotion /\ TrackClosed
  \/ AdminCreateToken(MaxTokens, {NULL}) /\ TrackClosed
  \/ AdminRevokeToken /\ TrackClosed
  \/ VoteBegin(1, {"Yes"}) /\ TrackClosed
  \/ VoteCommit /\ TrackClosed
  \/ Tick /\ TrackClosed

SpecHistory == Init /\ [][NextHistory]_vars

\* ----------------------------- one sweeper, the outbox and the delivery worker
NextSweep ==
  \/ AdminCreateMotion(MaxMotions, EarlyWindow, {"Simple"}) /\ UNCHANGED history
  \/ AdminUpdateStatus /\ UNCHANGED history
  \/ Tick /\ UNCHANGED history
  \/ SweepStart(1) /\ UNCHANGED history
  \/ SweepCloseMotion(Faults) /\ UNCHANGED history
  \/ SweepSelectClosed /\ UNCHANGED history
  \/ SweepEnsure /\ UNCHANGED history
  \/ DeliverStart(1, DefaultLimit) /\ UNCHANGED history
  \/ DeliverAttempt /\ UNCHANGED history
  \/ DeliverSettle /\ UNCHANGED history

SpecSweep == Init /\ [][NextSweep]_vars

\* ------------------ one sweeper beside the administrator's status and outcome
NextIdempotent ==
  \/ AdminCreateMotion(MaxMotions, EarlyWindow, {"Simple"}) /\ UNCHANGED history
  \/ AdminUpdateStatus /\ UNCHANGED history
  \/ AdminUpdateOutcome({"Passed", NULL}) /\ UNCHANGED history
  \/ Tick /\ UNCHANGED history
  \/ SweepStart(1) /\ UNCHANGED history
  \/ SweepCloseMotion(Faults) /\ UNCHANGED history
  \/ SweepSelectClosed /\ UNCHANGED history
  \/ SweepEnsure /\ UNCHANGED history

SpecIdempotent == Init /\ [][NextIdempotent]_vars

\* ------------------------------------- sweepers of several server instances
NextEnsure ==
  \/ AdminCreateMotion(1, EarlyWindow, {"Simple"}) /\ UNCHANGED history
  \/ AdminUpdateStatus /\ UNCHANGED history
  \/ Tick /\ UNCHANGED history
  \/ SweepStart(MaxSweepers) /\ UNCHANGED history
  \/ SweepCloseMotion(Faults) /\ UNCHANGED history
  \/ SweepSelectClosed /\ UNCHANGED history
  \/ SweepEnsure /\ UNCHANGED history

SpecEnsure == Init /\ [][NextEnsure]_vars

\* mailCount follows the calls of sendMailFn
TrackMail ==
  /\ mailCount' = IF lastMail' # NoMail THEN mailCount + 1 ELSE mailCount
  /\ UNCHANGED <<closedOnce, sweepClean, calc, delivered>>

\* delivered follows the calls of sendMailFn that resolved
TrackDelivered ==
  /\ delivered' = IF lastSettle'.sent
                     THEN delivered (+) SetToBag({lastSettle'.motionId})
                     ELSE delivered
  /\ UNCHANGED <<closedOnce, sweepClean, mailCount, calc>>

\* ------- one motion and two voters, from the votes to the results mail
NextEndToEnd ==
  \/ AdminCreateMotion(1, EarlyWindow, {"Simple"}) /\ TrackMail
  \/ AdminUpdateStatus /\ TrackMail
  \/ AdminCreateToken(2, Emails) /\ TrackMail
  \/ VoteBegin(1, {"Yes"}) /\ TrackMail
  \/ VoteCommit /\ TrackMail
  \/ Tick /\ TrackMail
  \/ SweepStart(1) /\ TrackMail
  \/ SweepCloseMotion(Faults) /\ TrackMail
  \/ SweepSelectClosed /\ TrackMail
  \/ SweepEnsure /\ TrackMail
  \/ DeliverStart(1, DefaultLimit) /\ TrackMail
  \/ DeliverAttempt /\ TrackMail
  \/ DeliverSettle /\ TrackMail

SpecEndToEnd == Init /\ [][NextEndToEnd]_vars

\* ------------------- the sweeper of one process: sweepAndEnqueueCompletedMotions
\* is synchronous, no route handler runs between its statements
NextBackfill ==
  \/ AdminCreateMotion(MaxMotions, EarlyWindow, {"Simple"}) /\ sweeps = EmptyBag /\ TrackSweep
  \/ AdminUpdateStatus /\ sweeps = EmptyBag /\ TrackSweep
  \/ Tick /\ TrackSweep
  \/ SweepStart(1) /\ TrackSweep
  \/ SweepCloseMotion(Faults) /\ TrackSweep
  \/ SweepSelectClosed /\ TrackSweep
  \/ SweepEnsure /\ TrackSweep

SpecBackfill == Init /\ [][NextBackfill]_vars

\* a pass is between two awaits: it goes on to its next row before any timer
\* or request handler of the process runs
PassReady == \E p \in BagToSet(passes) : p.pc = "next"
\* the process is idle: no sweep is running and no pass is between awaits
Idle == sweeps = EmptyBag /\ ~PassReady

\* ------- the timers of one process: a sweep runs to its end before anything
\* else does, a delivery pass waits on sendMailFn while later passes begin
NextDelivery ==
  \/ AdminCreateMotion(MaxBeside, EarlyWindow, {"Simple"}) /\ Idle /\ TrackDelivered
  \/ AdminUpdateStatus /\ Idle /\ TrackDelivered
  \/ Tick /\ Idle /\ TrackDelivered
  \/ SweepStart(1) /\ Idle /\ TrackDelivered
  \/ SweepCloseMotion({"none"}) /\ TrackDelivered
  \/ SweepSelectClosed /\ TrackDelivered
  \/ SweepEnsure /\ TrackDelivered
  \/ DeliverStart(MaxPasses, DefaultLimit) /\ Idle /\ TrackDelivered
  \/ DeliverAttempt /\ TrackDelivered
  \/ DeliverSettle /\ Idle /\ TrackDelivered

SpecDelivery == Init /\ [][NextDelivery]_vars

\* ------- the two timers under fair scheduling, in one process, with one
\* motion and one voter: the sweeper's transactions and the outbox rows are
\* per motion
\* the sweep timer and the steps of the sweep it starts
LiveSweepStart == SweepStart(1) /\ UNCHANGED history
LiveSweepClose == SweepCloseMotion({"none"}) /\ UNCHANGED history
LiveSweepSelect == SweepSelectClosed /\ UNCHANGED history
LiveSweepEnsure == SweepEnsure /\ UNCHANGED history
\* the delivery timer and the steps of the pass it starts
LiveDeliverStart == DeliverStart(1, DefaultLimit) /\ sweeps = EmptyBag /\ UNCHANGED history
LiveDeliverAttempt == DeliverAttempt /\ sweeps = EmptyBag /\ UNCHANGED history
\* sendMailFn resolves
LiveDeliverSent ==
  DeliverSettle /\ lastSettle'.sent /\ sweeps = EmptyBag /\ UNCHANGED history
\* sendMailFn rejects, a transient failure: the retry it schedules falls
\* within the clock
LiveDeliverFailed ==
  /\ DeliverSettle /\ ~lastSettle'.sent /\ sweeps = EmptyBag /\ UNCHANGED history
  /\ \A i \in 1..Len(notifications') : notifications'[i].next_attempt_at \in Times
LiveTick == Tick /\ sweeps = EmptyBag /\ UNCHANGED history

NextLive ==
  \/ AdminCreateMotion(1, EarlyWindow, {"Simple"}) /\ sweeps = EmptyBag /\ UNCHANGED history
  \/ AdminUpdateStatus /\ sweeps = EmptyBag /\ UNCHANGED history
  \/ AdminCreateToken(1, {NULL}) /\ sweeps = EmptyBag /\ UNCHANGED history
  \/ VoteBegin(1, {"Yes"}) /\ sweeps = EmptyBag /\ UNCHANGED history
  \/ VoteCommit /\ sweeps = EmptyBag /\ UNCHANGED history
  \/ LiveTick
  \/ LiveSweepStart
  \/ LiveSweepClose
  \/ LiveSweepSelect
  \/ LiveSweepEnsure
  \/ LiveDeliverStart
  \/ LiveDeliverAttempt
  \/ LiveDeliverSent
  \/ LiveDeliverFailed

\* both timers keep firing, a started sweep or pass runs on, the clock moves,
\* and sendMailFn does not reject for ever
SpecLive ==
  /\ Init
  /\ [][NextLive]_vars
  /\ SF_vars(LiveSweepStart) /\ WF_vars(LiveSweepClose)
  /\ WF_vars(LiveSweepSelect) /\ WF_vars(LiveSweepEnsure)
  /\ SF_vars(LiveDeliverStart) /\ SF_vars(LiveDeliverAttempt)
  /\ SF_vars(LiveDeliverSent)
  /\ SF_vars(LiveTick)

\* ------- one row that is attempted again and again
\* no pass is running and time passes until the earliest retry falls due
Wait ==
  /\ passes = EmptyBag
  /\ \E i \in 1..Len(notifications) :
       /\ notifications[i].status = "Pending"
       /\ notifications[i].next_attempt_at > now
       /\ notifications[i].attempts < MaxAttempts
       /\ \A j \in 1..Len(notifications) :
            (notifications[j].status = "Pending" /\ notifications[j].next_attempt_at > now)
              => notifications[i].next_attempt_at <= notifications[j].next_attempt_at
       /\ now' = notifications[i].next_attempt_at
  /\ Quiet
  /\ UNCHANGED <<storeVars, inflight, notifications, sweeps, passes, config>>

\* results mails enabled, or disabled by RESULTS_EMAILS_ENABLED
EnabledOrNot == {[enabled |-> e, propertyManagerEmail |-> TRUE] : e \in BOOLEAN}

InitBackoff == InitWith(EnabledOrNot)

NextBackoff ==
  \/ AdminCreateMotion(MaxMotions, EarlyWindow, {"Simple"}) /\ sweeps = EmptyBag /\ UNCHANGED history
  \/ AdminUpdateStatus /\ sweeps = EmptyBag /\ UNCHANGED history
  \/ Tick /\ sweeps = EmptyBag /\ UNCHANGED history
  \/ Wait /\ sweeps = EmptyBag /\ UNCHANGED history
  \/ SweepStart(1) /\ UNCHANGED history
  \/ SweepCloseMotion({"none"}) /\ UNCHANGED history
  \/ SweepSelectClosed /\ UNCHANGED history
  \/ SweepEnsure /\ UNCHANGED history
  \/ DeliverStart(1, DefaultLimit) /\ sweeps = EmptyBag /\ UNCHANGED history
  \/ DeliverAttempt /\ sweeps = EmptyBag /\ UNCHANGED history
  \/ DeliverSettle /\ sweeps = EmptyBag /\ UNCHANGED history

SpecBackoff == InitBackoff /\ [][NextBackoff]_vars

\* ------- the outbox row of a motion the administrator deletes
NextOrphan ==
  \/ AdminCreateMotion(MaxMotions, EarlyWindow, {"Simple"}) /\ sweeps = EmptyBag /\ UNCHANGED history
  \/ AdminUpdateStatus /\ sweeps = EmptyBag /\ UNCHANGED history
  \/ AdminDeleteMotion /\ sweeps = EmptyBag /\ UNCHANGED history
  \/ Tick /\ sweeps = EmptyBag /\ UNCHANGED history
  \/ SweepStart(1) /\ UNCHANGED history
  \/ SweepCloseMotion({"none"}) /\ UNCHANGED history
  \/ SweepSelectClosed /\ UNCHANGED history
  \/ SweepEnsure /\ UNCHANGED history
  \/ DeliverStart(1, DefaultLimit) /\ sweeps = EmptyBag /\ UNCHANGED history
  \/ DeliverAttempt /\ sweeps = EmptyBag /\ UNCHANGED history
  \/ DeliverSettle /\ sweeps = EmptyBag /\ UNCHANGED history

SpecOrphan == Init /\ [][NextOrphan]_vars

\* ------- every operation that runs beside the ballots of one motion
NextTally ==
  \/ AdminCreateMotion(1, EarlyWindow, {"Simple"}) /\ sweeps = EmptyBag /\ UNCHANGED history
  \/ AdminUpdateStatus /\ sweeps = EmptyBag /\ UNCHANGED history
  \/ AdminUpdateOutcome({"Cancelled", NULL}) /\ sweeps = EmptyBag /\ UNCHANGED history
  \/ AdminCreateToken(MaxTokens, {NULL}) /\ sweeps = EmptyBag /\ UNCHANGED history
  \/ AdminDeleteMotion /\ sweeps = EmptyBag /\ UNCHANGED history
  \/ AdminRevokeToken /\ sweeps = EmptyBag /\ UNCHANGED history
  \/ VoteReject(BinaryChoices) /\ sweeps = EmptyBag /\ UNCHANGED history
  \/ VoteBegin(1, BinaryChoices) /\ sweeps = EmptyBag /\ UNCHANGED history
  \/ VoteCommit /\ sweeps = EmptyBag /\ UNCHANGED history
  \/ Tick /\ sweeps = EmptyBag /\ UNCHANGED history
  \/ SweepStart(1) /\ UNCHANGED history
  \/ SweepCloseMotion({"none"}) /\ UNCHANGED history
  \/ SweepSelectClosed /\ UNCHANGED history
  \/ SweepEnsure /\ UNCHANGED history
  \/ DeliverStart(1, DefaultLimit) /\ sweeps = EmptyBag /\ UNCHANGED history
  \/ DeliverAttempt /\ sweeps = EmptyBag /\ UNCHANGED history
  \/ DeliverSettle /\ sweeps = EmptyBag /\ UNCHANGED history

SpecTally == Init /\ [][NextTally]_vars

\* ------- the sweeper of one process deciding on a motion that is voted on
NextClose ==
  \/ AdminCreateMotion(1, EarlyWindow, {"Simple", "TwoThirds"}) /\ sweeps = EmptyBag /\ UNCHANGED history
  \/ AdminUpdateStatus /\ sweeps = EmptyBag /\ UNCHANGED history
  \/ AdminUpdateOutcome({"Passed"}) /\ sweeps = EmptyBag /\ UNCHANGED history
  \/ AdminCreateToken(MaxVoters, {NULL}) /\ sweeps = EmptyBag /\ UNCHANGED history
  \/ AdminRevokeToken /\ sweeps = EmptyBag /\ UNCHANGED history
  \/ VoteBegin(1, BinaryChoices) /\ sweeps = EmptyBag /\ UNCHANGED history
  \/ VoteCommit /\ sweeps = EmptyBag /\ UNCHANGED history
  \/ Tick /\ sweeps = EmptyBag /\ UNCHANGED history
  \/ SweepStart(1) /\ UNCHANGED history
  \/ SweepCloseMotion(Faults) /\ UNCHANGED history
  \/ SweepSelectClosed /\ UNCHANGED history
  \/ SweepEnsure /\ UNCHANGED history

SpecClose == Init /\ [][NextClose]_vars

\* ================================================================ claims
\* C1: whatever way the submitVote attempts for a token interleave, the ballots
\* table never holds more than one ballot of that token, and once an attempt
\* that passed the eligibility checks has run its transaction, a token that
\* was not revoked or deleted meanwhile has exactly one ballot.
C1_OneBallotPerToken ==
  \A t \in TokenIds :
    /\ Cardinality(BallotsOfToken(ballots, t)) <= 1
    /\ (/\ lastVote.tokenId = t
        /\ lastVote.message \in {MsgSuccess, MsgError}
        /\ t \in DOMAIN tokens
        /\ tokens[t].status # "Revoked")
       => Cardinality(BallotsOfToken(ballots, t)) = 1

\* a race on one token has just been lost: the transaction threw, the ballot
\* of the winner is the only one
C1_RaceLost ==
  /\ lastVote.message = MsgError
  /\ lastVote.tokenId \in DOMAIN tokens
  /\ tokens[lastVote.tokenId].status = "Used"
  /\ Cardinality(BallotsOfToken(ballots, lastVote.tokenId)) = 1

\* C2: an attempt for a token of this motion that already has its ballot is
\* answered with the 'already used' message, the loser of a race included.
C2_AlreadyUsedReason ==
  (/\ lastVote.message \notin {NULL, MsgSuccess}
   /\ lastVote.motionId \in DOMAIN motions
   /\ lastVote.tokenId \in DOMAIN tokens
   /\ tokens[lastVote.tokenId].status = "Used"
   /\ tokens[lastVote.tokenId].motion_id = lastVote.motionId
   /\ existsForToken(lastVote.tokenId))
  => lastVote.message = MsgUsed

\* C3: a ballot of token t exists if and only if the status of t is Used.
C3_BallotIffUsed ==
  \A t \in DOMAIN tokens : existsForToken(t) <=> tokens[t].status = "Used"

\* C4: once a motion has been Closed or Published, no step creates a ballot
\* for it.
C4_NoBallotAfterClosed ==
  [][\A m \in closedOnce :
       BallotsOfMotion(ballots', m) = BallotsOfMotion(ballots, m)]_vars

\* C5: a ballot is recorded only for a submission whose time, as the
\* eligibility checks read it, lies in [open_at, close_at]; a submission of an
\* Active token after close_at is answered 'Voting has closed.' although the
\* motion is still Open, and one before open_at 'Voting has not yet opened.'
C5_WindowEnforced ==
  /\ \A r \in BagToSet(inflight) :
       r.motionId \in DOMAIN motions =>
         /\ motions[r.motionId].open_at <= r.checkedAt
         /\ r.checkedAt <= motions[r.motionId].close_at
  /\ (lastVote.message = MsgSuccess /\ lastVote.motionId \in DOMAIN motions)
       => /\ motions[lastVote.motionId].open_at <= lastVote.checkedAt
          /\ lastVote.checkedAt <= motions[lastVote.motionId].close_at
  /\ (/\ lastVote.message \notin {NULL, MsgSuccess, MsgError}
      /\ lastVote.motionId \in DOMAIN motions
      /\ motions[lastVote.motionId].status = "Open"
      /\ lastVote.tokenId \in DOMAIN tokens
      /\ tokens[lastVote.tokenId].status = "Active"
      /\ tokens[lastVote.tokenId].motion_id = lastVote.motionId)
       => /\ lastVote.checkedAt > motions[lastVote.motionId].close_at
             => lastVote.message = MsgClosed
          /\ lastVote.checkedAt < motions[lastVote.motionId].open_at
             => lastVote.message = MsgNotYetOpen

\* a vote after close_at on a motion that is still Open has been turned away
C5_LateVoteRejected ==
  /\ lastVote.message = MsgClosed
  /\ lastVote.motionId \in DOMAIN motions
  /\ motions[lastVote.motionId].status = "Open"
  /\ lastVote.checkedAt > motions[lastVote.motionId].close_at

\* C6: the status of a motion changes only from Draft to Open, from Open to
\* Closed and from Closed to Published.
C6_StatusAdvancesOneStep ==
  [][\A m \in DOMAIN motions \cap DOMAIN motions' :
       motions'[m].status # motions[m].status =>
         <<motions[m].status, motions'[m].status>> \in
           {<<"Draft", "Open">>, <<"Open", "Closed">>, <<"Closed", "Published">>}]_vars

\* C7: a token that is Used or Revoked keeps that status.
C7_TerminalTokenStatus ==
  [][\A t \in DOMAIN tokens \cap DOMAIN tokens' :
       tokens[t].status \in {"Used", "Revoked"} =>
         tokens'[t].status = tokens[t].status]_vars

\* C8: a turn of the sweeper's closing loop either commits the motion as
\* Closed together with its outbox row, or, when the transaction throws or the
\* process crashes inside it, leaves the motions and the outbox as they were.
C8_CloseAndEnqueueAtomic ==
  [][sweepLog'.result # NULL =>
       /\ sweepLog'.result \in {"failed", "crashed", "left"}
            => motions' = motions /\ notifications' = notifications
       /\ sweepLog'.result = "closed"
            => /\ sweepLog'.motionId \in DOMAIN motions'
               /\ motions'[sweepLog'.motionId].status = "Closed"
               /\ HasRow(notifications', sweepLog'.motionId)]_vars

\* the transaction of a motion that was due has failed: the motion is still
\* Open and has no outbox row
C8_FailedCloseLeftOpen ==
  /\ sweepLog.result \in {"failed", "crashed"}
  /\ sweepLog.motionId \in DOMAIN motions
  /\ motions[sweepLog.motionId].status = "Open"
  /\ now >= motions[sweepLog.motionId].close_at
  /\ ~HasRow(notifications, sweepLog.motionId)

\* C9: a step of the sweeper leaves a motion that is Closed, and the outbox
\* row of that motion, as they are, and leaves it with at most one row.
C9_SweepIdempotentOnClosed ==
  [][sweeps' # sweeps =>
       \A m \in DOMAIN motions :
         motions[m].status = "Closed" =>
           /\ m \in DOMAIN motions'
           /\ motions'[m] = motions[m]
           /\ \A i \in RowsOfMotion(notifications, m) :
                notifications'[i] = notifications[i]
           /\ Cardinality(RowsOfMotion(notifications', m)) <= 1]_vars

\* a later sweep is at a Closed motion that has an outcome and whose outbox
\* row was due before this sweep began
C9_SweepAtClosedMotion ==
  \E sw \in BagToSet(sweeps) :
    /\ sw.pc = "ensuring"
    /\ sw.todo # <<>>
    /\ Head(sw.todo).id \in DOMAIN motions
    /\ motions[Head(sw.todo).id].status = "Closed"
    /\ motions[Head(sw.todo).id].outcome = "Passed"
    /\ \E i \in RowsOfMotion(notifications, Head(sw.todo).id) :
         notifications[i].next_attempt_at < sw.now

\* C10: the outbox never holds two rows of one motion, however many sweepers
\* ensure it, and a motion a sweeper has just closed has exactly one.
C10_OneRowPerMotion ==
  /\ \A m \in MotionIds : Cardinality(RowsOfMotion(notifications, m)) <= 1
  /\ sweepLog.result = "closed"
       => Cardinality(RowsOfMotion(notifications, sweepLog.motionId)) = 1

\* two sweepers are running, one about to ensure a row that already exists
C10_SecondEnsure ==
  /\ BagCardinality(sweeps) >= 2
  /\ \E sw \in BagToSet(sweeps) :
       /\ sw.pc = "ensuring"
       /\ sw.todo # <<>>
       /\ HasRow(notifications, Head(sw.todo).id)

\* C11: when a sweep ends and none of its statements has failed, every motion
\* that is Closed or Published has an outbox row, whoever closed it.
C11_BackfillCoversClosed ==
  [][(sweeps # EmptyBag /\ sweeps' = EmptyBag /\ sweepClean') =>
       \A m \in DOMAIN motions' :
         motions'[m].status \in {"Closed", "Published"}
           => HasRow(notifications', m)]_vars

\* before any motion is due, a clean sweep has left a row for a motion the
\* administrator published
C11_PublishedBackfilled ==
  /\ sweeps = EmptyBag
  /\ sweepClean
  /\ \E m \in DOMAIN motions :
       /\ motions[m].status = "Published"
       /\ now < motions[m].close_at
       /\ HasRow(notifications, m)

\* C12: for a Simple motion with at least one eligible voter and one ballot,
\* the projection is locked Passed exactly when Yes >= floor(eligible/2)+1,
\* locked Failed exactly when No >= floor(eligible/2)+1 and not complete
\* otherwise; with no eligible voter or no ballot it is never complete. The
\* tallies are those of at most eligible ballots.
C12_SimpleProjection ==
  (calc.rule = "Simple" /\ calc.fresh) =>
    LET threshold == (calc.eligible \div 2) + 1
        locked(o) == calc.early.complete /\ calc.early.outcome = o
    IN IF calc.eligible = 0 \/ CalcStats.voted = 0
         THEN ~calc.early.complete
       ELSE CalcStats.voted <= calc.eligible =>
              /\ locked("Passed") <=> calc.yes >= threshold
              /\ locked("Failed") <=> calc.no >= threshold
              /\ ~calc.early.complete <=> (calc.yes < threshold /\ calc.no < threshold)

\* 10 eligible, 6 Yes, 4 outstanding: locked Passed
C12_SixOfTen ==
  /\ calc.rule = "Simple" /\ calc.fresh
  /\ calc.eligible = 10 /\ calc.yes = 6 /\ calc.no = 0 /\ calc.abstain = 0
  /\ calc.early.complete /\ calc.early.outcome = "Passed"

\* C13: for a TwoThirds motion with at least one eligible voter and one
\* ballot, the projection is locked Passed exactly when Yes >= 2*eligible/3,
\* locked Failed exactly when Yes + remaining < 2*eligible/3, and not complete
\* otherwise. The tallies are those of at most eligible ballots.
C13_TwoThirdsProjection ==
  (/\ calc.rule = "TwoThirds" /\ calc.fresh
   /\ calc.eligible >= 1 /\ CalcStats.voted >= 1
   /\ CalcStats.voted <= calc.eligible) =>
    LET reached == 3 * calc.yes >= 2 * calc.eligible
        unreachable == 3 * (calc.yes + CalcStats.remaining) < 2 * calc.eligible
        locked(o) == calc.early.complete /\ calc.early.outcome = o
    IN /\ locked("Passed") <=> reached
       /\ locked("Failed") <=> unreachable
       /\ ~calc.early.complete <=> (~reached /\ ~unreachable)

\* 9 eligible, 3 Yes, 4 No, 2 outstanding: locked Failed
C13_ThreeFourOfNine ==
  /\ calc.rule = "TwoThirds" /\ calc.fresh
  /\ calc.eligible = 9 /\ calc.yes = 3 /\ calc.no = 4 /\ calc.abstain = 0
  /\ calc.early.complete /\ calc.early.outcome = "Failed"

\* C14: with no outcome set by the administrator and Yes # No, the final
\* evaluation of a Simple motion is Passed when Yes > No and Failed when
\* Yes < No, that of a TwoThirds motion is Passed exactly when
\* 3*Yes >= 2*(Yes+No) and Failed otherwise; a Simple motion with equal
\* non-zero Yes and No is a Tie.
C14_FinalEvaluation ==
  (calc.rule # NULL /\ calc.final # NULL /\ calc.outcome = NULL) =>
    /\ (calc.yes # calc.no /\ calc.rule = "Simple")
         => calc.final = IF calc.yes > calc.no THEN "Passed" ELSE "Failed"
    /\ (calc.yes # calc.no /\ calc.rule = "TwoThirds")
         => calc.final = IF 3 * calc.yes >= 2 * (calc.yes + calc.no)
                           THEN "Passed" ELSE "Failed"
    /\ (calc.yes = calc.no /\ calc.yes > 0 /\ calc.rule = "Simple")
         => calc.final = "Tie"

\* 5 Yes and 5 No under the Simple rule have been evaluated
C14_FiveFive ==
  /\ calc.rule = "Simple" /\ calc.outcome = NULL
  /\ calc.yes = 5 /\ calc.no = 5
  /\ calc.final = "Tie"

\* C15: with no outcome set by the administrator, no Yes and no No ballot,
\* the final evaluation is Failed under both rules.
C15_NoVotesFailed ==
  (/\ calc.rule # NULL /\ calc.final # NULL /\ calc.outcome = NULL
   /\ calc.yes = 0 /\ calc.no = 0)
  => calc.final = "Failed"

\* C16: with no outcome set by the administrator, the final evaluation of a
\* TwoThirds motion with as many Yes as No ballots is Failed, not Tie.
C16_TwoThirdsTieFailed ==
  (/\ calc.rule = "TwoThirds" /\ calc.final # NULL /\ calc.outcome = NULL
   /\ calc.yes = calc.no /\ calc.yes > 0)
  => calc.final = "Failed"

\* C17: when the administrator has set an outcome, the final evaluation is
\* that outcome, whatever the tally and the rule.
C17_AdminOutcomeWins ==
  (calc.rule # NULL /\ calc.final # NULL /\ calc.outcome # NULL)
  => calc.final = calc.outcome

\* a tally that computes to Passed has been evaluated as the Cancelled the
\* administrator set
C17_CancelledOverPassed ==
  /\ calc.rule = "Simple" /\ calc.outcome = "Cancelled"
  /\ calc.yes > calc.no
  /\ calc.final = "Cancelled"

\* C18: when the final evaluation computes Passed, Yes is more than half of
\* the eligible count under the Simple rule and at least two thirds of it
\* under the TwoThirds rule.
C18_PassedMeansMajorityOfEligible ==
  (/\ calc.rule # NULL /\ calc.final = "Passed" /\ calc.outcome = NULL
   /\ CalcStats.voted <= calc.eligible)
  => /\ calc.rule = "Simple" => 2 * calc.yes > calc.eligible
     /\ calc.rule = "TwoThirds" => 3 * calc.yes >= 2 * calc.eligible

\* C19: when the projection has locked an outcome on a tally, the final
\* evaluation without an administrator's outcome gives that outcome on the
\* tally and on every tally reached from it by casting remaining ballots.
C19_ProjectionAgreesWithFinal ==
  (/\ calc.rule # NULL /\ calc.early.complete
   /\ calc.final # NULL /\ calc.outcome = NULL
   /\ CalcStats.voted <= calc.eligible)
  => calc.final = calc.early.outcome

C21_SentIsTerminal ==
  [][\A i \in 1..Len(notifications) :
       notifications[i].status = "Sent" =>
         /\ notifications'[i].status = "Sent"
         /\ notifications'[i].attempts = notifications[i].attempts
         /\ notifications'[i].next_attempt_at = notifications[i].next_attempt_at
         /\ lastMail'.motionId # notifications[i].motion_id
         /\ \A k \in 1..Len(getPendingNotifications(notifications', now', DefaultLimit)) :
              getPendingNotifications(notifications', now', DefaultLimit)[k].id # i]_vars

\* C22: in one process, sendMailFn resolves at most once for every motion,
\* whatever way the sweeps and the delivery passes interleave, a pass that
\* begins while an earlier one waits on sendMailFn included.
C22_AtMostOneSend ==
  \A m \in MotionIds : CopiesIn(m, delivered) <= 1

C24_BackoffSchedule ==
  [][\A i \in 1..Len(notifications) :
       notifications'[i].attempts # notifications[i].attempts =>
         LET k == notifications'[i].attempts
             delay == IF k <= 4 THEN <<1, 5, 15, 30>>[k] ELSE 60
             due == getPendingNotifications(notifications', now + delay, DefaultLimit)
         IN /\ k = notifications[i].attempts + 1
            /\ notifications'[i].status = "Pending"
            /\ notifications'[i].next_attempt_at = now + delay
            /\ \A t \in now..(now + delay - 1) :
                 \A n \in 1..Len(getPendingNotifications(notifications', t, DefaultLimit)) :
                   getPendingNotifications(notifications', t, DefaultLimit)[n].id # i
            /\ \E n \in 1..Len(due) : due[n].id = i]_vars

\* a row has failed six times and waits the second full hour
C24_SixthFailure ==
  \E i \in 1..Len(notifications) :
    /\ notifications[i].status = "Pending"
    /\ notifications[i].attempts = 6
    /\ notifications[i].next_attempt_at = now + 60

\* C25: when a delivery pass processes a row whose motion no longer exists,
\* the row ends in a terminal disposition: it is not Sent, and it is not
\* Pending either, so that it is never selected as due again.
C25_OrphanRowTerminal ==
  [][\A p \in BagToSet(passes) :
       (/\ p.pc = "next"
        /\ Head(p.pending).motion_id \notin DOMAIN motions
        /\ notifications'[Head(p.pending).id] # notifications[Head(p.pending).id])
       => notifications'[Head(p.pending).id].status \notin {"Sent", "Pending"}]_vars

\* C26: an accepted ballot stays in the tally for ever. No step of the vote
\* route, the sweeper, the delivery worker or the administrator changes or
\* removes a ballot; a ballot is added exactly by a successful submission, to
\* the motion it was submitted for; and at every state the voted count of a
\* motion is the number of its ballots and its per-option counts sum to it.
C26_BallotsImmutable ==
  /\ [](\A m \in MotionIds :
          LET stats == getMotionStats(tokens, ballots, m) IN
            /\ stats.voted = Cardinality(BallotsOfMotion(ballots, m))
            /\ getCount(stats, "Yes") + getCount(stats, "No")
                 + getCount(stats, "Abstain") = stats.voted)
  /\ [][/\ Len(ballots') >= Len(ballots)
        /\ SubSeq(ballots', 1, Len(ballots)) = ballots
        /\ lastVote'.message = MsgSuccess
             <=> /\ Len(ballots') = Len(ballots) + 1
                 /\ ballots'[Len(ballots')].motion_id = lastVote'.motionId
                 /\ ballots'[Len(ballots')].voter_token_id = lastVote'.tokenId]_vars

\* a ballot is in the tally after its token was revoked, its motion closed
\* and given an outcome, and the results mail sent
C26_BallotOutlivesItsToken ==
  \E i \in 1..Len(ballots) :
    /\ tokens[ballots[i].voter_token_id].status = "Revoked"
    /\ motions[ballots[i].motion_id].status = "Closed"
    /\ motions[ballots[i].motion_id].outcome = "Cancelled"
    /\ \E n \in RowsOfMotion(notifications, ballots[i].motion_id) :
         notifications[n].status = "Sent"

\* C27: in a sweep pass whose transaction does not fail, an Open motion is
\* closed if and only if the time of the pass has reached close_at, or nobody
\* remains to vote and somebody is eligible, or the early projection reports
\* complete; otherwise it stays Open and no outbox row is created.
C27_ClosedIffEligible ==
  [][\A m \in DOMAIN motions :
       (/\ sweepLog'.motionId = m
        /\ sweepLog'.result \in {"closed", "left"}
        /\ motions[m].status = "Open")
       => LET stats == getMotionStats(tokens, ballots, m)
              holds == \/ now >= motions[m].close_at
                       \/ stats.remaining <= 0 /\ stats.eligible > 0
                       \/ evaluateEarlyCompletion(motions[m], stats).complete
          IN /\ motions'[m].status = "Closed" <=> holds
             /\ ~holds => /\ motions'[m].status = "Open"
                          /\ notifications' = notifications]_vars

\* a sweep has left a motion Open that has one ballot of two eligible voters
C27_LeftOpen ==
  \E m \in DOMAIN motions :
    /\ sweepLog.motionId = m
    /\ sweepLog.result = "left"
    /\ motions[m].status = "Open"
    /\ getMotionStats(tokens, ballots, m).voted = 1
    /\ getMotionStats(tokens, ballots, m).eligible = 2
    /\ ~HasRow(notifications, m)

\* C28: every close by the sweeper records one reason out of end_time_reached,
\* all_votes_cast, early_threshold_passed and early_threshold_failed, fixed by
\* the state of the motion: the locked outcome of the early projection comes
\* before full turnout, which comes before the time that has run out.
C28_ReasonPrecedence ==
  [][\A m \in DOMAIN motions :
       (sweepLog'.motionId = m /\ sweepLog'.result = "closed")
       => LET stats == getMotionStats(tokens, ballots, m)
              early == evaluateEarlyCompletion(motions[m], stats)
          IN /\ sweepLog'.reason \in {"end_time_reached", "all_votes_cast",
                                      "early_threshold_passed", "early_threshold_failed"}
             /\ early.complete =>
                  sweepLog'.reason = IF early.outcome = "Passed"
                                       THEN "early_threshold_passed"
                                       ELSE "early_threshold_failed"
             /\ (~early.complete /\ stats.remaining <= 0 /\ stats.eligible > 0)
                  => sweepLog'.reason = "all_votes_cast"
             /\ (~early.complete /\ ~(stats.remaining <= 0 /\ stats.eligible > 0))
                  => /\ sweepLog'.reason = "end_time_reached"
                     /\ now >= motions[m].close_at]_vars

\* a close for which all three conditions held: two of two voters voted No
\* and close_at had passed
C28_AllThreeApply ==
  \E m \in DOMAIN motions :
    /\ sweepLog.motionId = m
    /\ sweepLog.result = "closed"
    /\ sweepLog.reason = "early_threshold_failed"
    /\ now >= motions[m].close_at
    /\ getMotionStats(tokens, ballots, m).eligible = 2
    /\ getCount(getMotionStats(tokens, ballots, m), "No") = 2

\* C29: the sweeper acts on Open motions only and writes their status only. No
\* step of a sweep changes a Draft, Closed or Published motion, a Draft motion
\* past its close_at included; an Open motion keeps every field but its status,
\* which stays Open or becomes Closed; tokens and ballots are not written.
C29_SweeperFrame ==
  [][sweeps' # sweeps =>
       /\ tokens' = tokens
       /\ ballots' = ballots
       /\ DOMAIN motions' = DOMAIN motions
       /\ \A m \in DOMAIN motions :
            IF motions[m].status = "Open"
              THEN \E s \in {"Open", "Closed"} :
                     motions'[m] = [motions[m] EXCEPT !.status = s]
              ELSE motions'[m] = motions[m]]_vars

\* the sweeper has closed a motion that has an outcome set by the
\* administrator and a ballot, and both are as they were
C29_ClosedWithOutcome ==
  \E m \in DOMAIN motions :
    /\ sweepLog.motionId = m
    /\ sweepLog.result = "closed"
    /\ motions[m].status = "Closed"
    /\ motions[m].outcome = "Passed"
    /\ BallotsOfMotion(ballots, m) # {}

\* C30: ensure is a no-op on a row that exists. In every step of a sweep each
\* existing outbox row keeps its status, attempts, next_attempt_at and last
\* failure reason, a Sent row and a backed-off Pending row included; at most
\* one row is added, only for a motion that had none, and it is Pending with
\* attempts 0 and next_attempt_at = now.
C30_EnsureNoOpOnExistingRow ==
  [][sweeps' # sweeps =>
       /\ Len(notifications') \in {Len(notifications), Len(notifications) + 1}
       /\ \A i \in 1..Len(notifications) : notifications'[i] = notifications[i]
       /\ Len(notifications') = Len(notifications) + 1 =>
            LET row == notifications'[Len(notifications')] IN
              /\ ~HasRow(notifications, row.motion_id)
              /\ row.status = "Pending"
              /\ row.attempts = 0
              /\ row.next_attempt_at = now
              /\ row.last_error = NULL]_vars

\* the backfill loop of a sweep is at a motion whose row has failed once and
\* is not due yet
C30_EnsureAtBackedOffRow ==
  \E sw \in BagToSet(sweeps) :
    /\ sw.pc = "ensuring"
    /\ sw.todo # <<>>
    /\ \E i \in RowsOfMotion(notifications, Head(sw.todo).id) :
         /\ notifications[i].status = "Pending"
         /\ notifications[i].attempts = 1
         /\ notifications[i].next_attempt_at > now

\* C31: sendMailFn is called only for a row that is Pending with
\* next_attempt_at <= now at the time of the call, overlapping passes
\* included, and a pass holds at most `limit` rows.
C31_OnlyDueRowsAttempted ==
  [][/\ \A p \in BagToSet(passes') : Len(p.pending) <= DefaultLimit
     /\ lastMail' # NoMail =>
          \A i \in RowsOfMotion(notifications, lastMail'.motionId) :
            /\ notifications[i].status = "Pending"
            /\ notifications[i].next_attempt_at <= now]_vars

\* C40: the attempts of a row count its failed and skipped attempts. Every
\* rejected call of sendMailFn adds one to the attempts of its row and no step
\* lowers them, whatever order two passes that hold the same row finish in.
C40_AttemptsCountFailures ==
  [][\A i \in 1..Len(notifications) :
       /\ notifications'[i].attempts >= notifications[i].attempts
       /\ (lastSettle'.motionId = notifications[i].motion_id /\ ~lastSettle'.sent)
            => notifications'[i].attempts = notifications[i].attempts + 1]_vars

\* C39: sendMailFn is called for a motion only while the motion is Closed or
\* Published, whatever the administrator did to its status after the outbox
\* row was created.
C39_MailOnlyForClosedMotion ==
  [][lastMail' # NoMail =>
       /\ lastMail'.motionId \in DOMAIN motions
       /\ motions[lastMail'.motionId].status \in {"Closed", "Published"}]_vars

\* C37: at every state and for every motion the statistics satisfy
\* 0 <= voted <= eligible, that is remaining = eligible - voted is not
\* negative, eligible counting the tokens that are not Revoked and voted the
\* ballots.
C37_VotedWithinEligible ==
  \A m \in MotionIds :
    LET stats == getMotionStats(tokens, ballots, m) IN
      /\ 0 <= stats.voted
      /\ stats.voted <= stats.eligible
      /\ stats.remaining >= 0

\* one motion decided by a simple majority, voters who abstain, tokens revoked
\* by the administrator and the sweeper
NextRevoke ==
  \/ AdminCreateMotion(1, EarlyWindow, {"Simple"}) /\ sweeps = EmptyBag /\ UNCHANGED history
  \/ AdminUpdateStatus /\ sweeps = EmptyBag /\ UNCHANGED history
  \/ AdminCreateToken(MaxVoters, {NULL}) /\ sweeps = EmptyBag /\ UNCHANGED history
  \/ AdminRevokeToken /\ sweeps = EmptyBag /\ UNCHANGED history
  \/ VoteBegin(1, {"Abstain", "Yes"}) /\ sweeps = EmptyBag /\ UNCHANGED history
  \/ VoteCommit /\ sweeps = EmptyBag /\ UNCHANGED history
  \/ Tick /\ sweeps = EmptyBag /\ UNCHANGED history
  \/ SweepStart(1) /\ UNCHANGED history
  \/ SweepCloseMotion({"none"}) /\ UNCHANGED history
  \/ SweepSelectClosed /\ UNCHANGED history
  \/ SweepEnsure /\ UNCHANGED history

SpecRevoke == Init /\ [][NextRevoke]_vars

\* C38: the sweeper closes a motion with the reason all_votes_cast only when no
\* token of the motion is still Active, that is when every token of the motion
\* is Used or Revoked.
C38_AllVotesCastNoActiveToken ==
  [][\A m \in DOMAIN motions :
       (/\ sweepLog'.motionId = m
        /\ sweepLog'.result = "closed"
        /\ sweepLog'.reason = "all_votes_cast")
       => \A t \in DOMAIN tokens :
            tokens[t].motion_id = m => tokens[t].status # "Active"]_vars

\* C32: after a failed or skipped delivery attempt on a row that had
\* attempts = a, the row is still Pending, its attempts are a + 1, its
\* next_attempt_at is the time of the attempt plus backoff(a + 1), and its
\* last_error holds the reason of this attempt (the skip reason, or the error
\* of the delivery call); the motions, tokens and ballots are unchanged.
C32_FailureRecorded ==
  [][\A i \in 1..Len(notifications) :
       notifications'[i].attempts # notifications[i].attempts =>
         LET a == notifications[i].attempts
             m == notifications[i].motion_id
         IN /\ notifications'[i].status = "Pending"
            /\ notifications'[i].attempts = a + 1
            /\ notifications'[i].next_attempt_at = now + computeBackoffMinutes(a + 1)
            /\ notifications'[i].last_error =
                 IF lastSettle' = [motionId |-> m, sent |-> FALSE]
                   THEN "send failed" ELSE SkipReason(m)
            /\ notifications'[i].last_error # NULL
            /\ notifications'[i].motion_id = m
            /\ motions' = motions
            /\ tokens' = tokens
            /\ ballots' = ballots]_vars

\* the delivery call has just failed for a row that had failed once before: the
\* row waits five minutes with the error recorded
C32_SecondFailure ==
  \E i \in 1..Len(notifications) :
    /\ lastSettle = [motionId |-> notifications[i].motion_id, sent |-> FALSE]
    /\ notifications[i].status = "Pending"
    /\ notifications[i].attempts = 2
    /\ notifications[i].next_attempt_at = now + 5
    /\ notifications[i].last_error = "send failed"

\* RESULTS_EMAILS_ENABLED set or not, property_manager_email set or not
AnyConfig == {[enabled |-> e, propertyManagerEmail |-> pm] : e \in BOOLEAN, pm \in BOOLEAN}

InitSkip == InitWith(AnyConfig)

\* one motion whose voters may have addresses, closed by the sweeper and
\* delivered by one pass at a time under each configuration
NextSkip ==
  \/ AdminCreateMotion(1, EarlyWindow, {"Simple"}) /\ sweeps = EmptyBag /\ UNCHANGED history
  \/ AdminUpdateStatus /\ sweeps = EmptyBag /\ UNCHANGED history
  \/ AdminCreateToken(1, {NULL, "a@x.org"}) /\ sweeps = EmptyBag /\ UNCHANGED history
  \/ Tick /\ sweeps = EmptyBag /\ UNCHANGED history
  \/ Wait /\ sweeps = EmptyBag /\ UNCHANGED history
  \/ SweepStart(1) /\ UNCHANGED history
  \/ SweepCloseMotion({"none"}) /\ UNCHANGED history
  \/ SweepSelectClosed /\ UNCHANGED history
  \/ SweepEnsure /\ UNCHANGED history
  \/ DeliverStart(1, DefaultLimit) /\ sweeps = EmptyBag /\ UNCHANGED history
  \/ DeliverAttempt /\ sweeps = EmptyBag /\ UNCHANGED history
  \/ DeliverSettle /\ sweeps = EmptyBag /\ UNCHANGED history

SpecSkip == InitSkip /\ [][NextSkip]_vars

\* C33: when results notifications are disabled by the feature flag or the
\* property-manager address is not configured, a delivery attempt never calls
\* the delivery collaborator; the attempt is recorded on the row as a skip with
\* its reason (results_emails_disabled, the flag being looked at first, or
\* property_manager_email_missing), the row stays Pending and is rescheduled
\* with the backoff of a failure.
C33_SkipWithoutDelivery ==
  [][(~config.enabled \/ ~config.propertyManagerEmail) =>
       /\ lastMail' = NoMail
       /\ \A p \in BagToSet(passes') : p.pc # "sending"
       /\ \A p \in BagToSet(passes) :
            (p.pc = "next" /\ passes' = Advance(passes, p)) =>
              LET i == Head(p.pending).id
                  a == notifications[i].attempts
                  delay == IF a + 1 <= 4 THEN <<1, 5, 15, 30>>[a + 1] ELSE 60
              IN /\ notifications'[i].status = "Pending"
                 /\ notifications'[i].attempts = a + 1
                 /\ notifications'[i].next_attempt_at = now + delay
                 /\ notifications'[i].last_error =
                      IF ~config.enabled THEN "results_emails_disabled"
                      ELSE "property_manager_email_missing"]_vars

\* with the flag on and no property-manager address, a row whose motion has a
\* voter with an address has been skipped twice
C33_SkippedTwice ==
  \E i \in 1..Len(notifications) :
    /\ config.enabled
    /\ ~config.propertyManagerEmail
    /\ notifications[i].status = "Pending"
    /\ notifications[i].attempts = 2
    /\ notifications[i].next_attempt_at = now + 5
    /\ notifications[i].last_error = "property_manager_email_missing"
    /\ \E t \in DOMAIN tokens :
         /\ tokens[t].motion_id = notifications[i].motion_id
         /\ tokens[t].recipient_email = "a@x.org"

\* the statements of one turn of the first loop that can throw: the read of
\* the statistics, the status update, the outbox insert
StatementFaults == {"none", "stats", "update", "ensure"}

\* several motions swept by one pass at a time, any statement of which may fail
NextIndependent ==
  \/ AdminCreateMotion(MaxBeside, EarlyWindow, {"Simple"}) /\ sweeps = EmptyBag /\ TrackSweep
  \/ AdminUpdateStatus /\ sweeps = EmptyBag /\ TrackSweep
  \/ Tick /\ sweeps = EmptyBag /\ TrackSweep
  \/ SweepStart(1) /\ TrackSweep
  \/ SweepCloseMotion(StatementFaults) /\ TrackSweep
  \/ SweepSelectClosed /\ TrackSweep
  \/ SweepEnsure /\ TrackSweep

SpecIndependent == Init /\ [][NextIndependent]_vars

\* C34: within one sweep pass the motions are independent. A pass takes up
\* every Open motion; when the evaluation or the close of motion A fails, A is
\* left as it was (still Open, no outbox row added) and the pass goes on with
\* the motions after A; every Open motion B that is eligible for closing and
\* whose own turn does not fail is closed and enqueued in that pass, also
\* after a failure of an earlier motion.
C34_SweepIndependence ==
  [][/\ \A sw \in BagToSet(sweeps') :
          sw \notin BagToSet(sweeps) /\ sw.pc = "closing" /\ sweeps = EmptyBag =>
            \A m \in DOMAIN motions :
              motions[m].status = "Open" => \E k \in 1..Len(sw.todo) : sw.todo[k].id = m
     /\ \A sw \in BagToSet(sweeps) :
          (/\ sw.pc = "closing"
           /\ sw.todo # <<>>
           /\ sweepLog'.motionId = Head(sw.todo).id
           /\ sweepLog'.result \in {"failed", "closed", "left"})
          => LET b == Head(sw.todo).id IN
               /\ sweepLog'.result = "failed" =>
                    /\ motions' = motions
                    /\ notifications' = notifications
                    /\ motions'[b].status = "Open"
                    /\ [sw EXCEPT !.todo = Tail(sw.todo)] \in BagToSet(sweeps')
               /\ (sweepLog'.result # "failed" /\ sw.now >= motions[b].close_at) =>
                    /\ motions'[b].status = "Closed"
                    /\ HasRow(notifications', b)
                    /\ \A a \in DOMAIN motions \ {b} : motions'[a] = motions[a]]_vars

\* the close of motion 1 has failed in this pass and motion 1 is as it was;
\* motion 2 has then been closed and enqueued by the same pass
C34_ClosedAfterFailure ==
  /\ ~sweepClean
  /\ sweeps # EmptyBag
  /\ sweepLog = [motionId |-> 2, result |-> "closed", reason |-> "end_time_reached"]
  /\ motions[1].status = "Open"
  /\ now >= motions[1].close_at
  /\ ~HasRow(notifications, 1)
  /\ motions[2].status = "Closed"
  /\ HasRow(notifications, 2)

\* a store write of the pass throws. Inside the try (markNotificationSent after
\* a delivery, markNotificationFailed after a skip) the error is caught and the
\* catch branch records it as the failure of the row; the write of the catch
\* branch itself, markNotificationFailed, has nothing around it: when it
\* throws, the for loop is left and the promise of the pass rejects
DeliverWriteFails ==
  \E p \in BagToSet(passes), caught \in BOOLEAN :
    /\ \/ p.pc = "sending"
       \/ p.pc = "next" /\ SkipReason(Head(p.pending).motion_id) # NULL
    /\ LET notif == Head(p.pending) IN
         IF caught
           THEN /\ notifications' = markNotificationFailed(notifications, notif.id,
                       notif.attempts + 1,
                       now + computeBackoffMinutes(notif.attempts + 1), "store write failed")
                /\ passes' = Advance(passes, p)
           ELSE /\ notifications' = notifications
                /\ passes' = passes (-) SetToBag({p})
    /\ Quiet
    /\ UNCHANGED <<storeVars, now, inflight, sweeps, config>>

\* some motions closed by the sweeper and one delivery pass at a time, whose
\* delivery calls and store writes may fail, with the feature flag on or off
NextWriteFault ==
  \/ AdminCreateMotion(MaxBeside, EarlyWindow, {"Simple"}) /\ Idle /\ UNCHANGED history
  \/ AdminUpdateStatus /\ Idle /\ UNCHANGED history
  \/ Tick /\ Idle /\ UNCHANGED history
  \/ SweepStart(1) /\ Idle /\ UNCHANGED history
  \/ SweepCloseMotion({"none"}) /\ UNCHANGED history
  \/ SweepSelectClosed /\ UNCHANGED history
  \/ SweepEnsure /\ UNCHANGED history
  \/ DeliverStart(1, DefaultLimit) /\ Idle /\ UNCHANGED history
  \/ DeliverAttempt /\ UNCHANGED history
  \/ DeliverSettle /\ Idle /\ UNCHANGED history
  \/ DeliverWriteFails /\ sweeps = EmptyBag /\ UNCHANGED history

SpecWriteFault == InitBackoff /\ [][NextWriteFault]_vars

\* C35: within one delivery pass the rows are independent: whatever error the
\* attempt of one row raises, in the delivery call or in the store write that
\* records the outcome, the pass is not left: a pass ends only after the
\* attempt of its last row, and each step of it goes on to the next row it
\* selected.
C35_PassAttemptsEveryRow ==
  [][\A p \in BagToSet(passes) :
       CopiesIn(p, passes') < CopiesIn(p, passes) =>
         \/ passes' = Advance(passes, p)
         \/ /\ p.pc = "next"
            /\ passes' = (passes (-) SetToBag({p}))
                         (+) SetToBag({[p EXCEPT !.pc = "sending"]})]_vars

\* several motions with several tokens: votes with a token of the motion or of
\* another motion, for an option of the motion or for something else, while
\* the administrator changes statuses, revokes tokens and deletes motions
NextBallot ==
  \/ AdminCreateMotion(2, EarlyWindow, {"Simple"}) /\ UNCHANGED history
  \/ AdminUpdateStatus /\ UNCHANGED history
  \/ AdminDeleteMotion /\ UNCHANGED history
  \/ AdminCreateToken(MaxVoters, {NULL}) /\ UNCHANGED history
  \/ AdminRevokeToken /\ UNCHANGED history
  \/ VoteReject({"Yes", "Maybe"}) /\ UNCHANGED history
  \/ VoteBegin(1, {"Yes", "Maybe"}) /\ UNCHANGED history
  \/ VoteCommit /\ UNCHANGED history
  \/ Tick /\ UNCHANGED history

SpecBallot == Init /\ [][NextBallot]_vars

\* C36: every persisted ballot is well-formed with respect to its motion: the
\* motion exists, the chosen option is one of the motion's configured options,
\* and the token the ballot references exists and belongs to the same motion as
\* the ballot.
C36_BallotWellFormed ==
  \A i \in 1..Len(ballots) :
    /\ ballots[i].motion_id \in DOMAIN motions
    /\ ballots[i].choice \in motions[ballots[i].motion_id].options
    /\ ballots[i].voter_token_id \in DOMAIN tokens
    /\ tokens[ballots[i].voter_token_id].motion_id = ballots[i].motion_id

\* a ballot of motion 2 is stored, and a vote on motion 2 with the token of
\* motion 1 has just been refused
C36_WrongMotionRefused ==
  /\ \E i \in 1..Len(ballots) : ballots[i].motion_id = 2
  /\ lastVote.motionId = 2
  /\ lastVote.message = MsgWrongMotion
  /\ lastVote.tokenId \in DOMAIN tokens
  /\ tokens[lastVote.tokenId].motion_id = 1

====
